---- MODULE Spec2Model ----
(***************************************************************************)
(* YTPGenerator: the effect catalog (effects.py), the fragment compiler    *)
(* and command builder (ffmpeg_worker.py) and the process runner           *)
(* (utils.py).                                                             *)
(*                                                                         *)
(* Conventions.                                                            *)
(*  - A path is a string; Python's None is the string NONE.                *)
(*  - A float level/probability p is the integer 1000*p ("milli");         *)
(*    derived filter parameters are integers in the unit their token names.*)
(*  - A filter template is a sequence of tokens: a placeholder "{jv}" or   *)
(*    "{ja}", a stream reference "[g:v]" or "[g:a]", one of the terminal    *)
(*    labels "[vout]"/"[aout]", a number, or literal filter text.            *)
(*  - random.random(), random.choice(), os.path.exists(), os.path.isfile() *)
(*    and the child process are the environment: their outcomes are drawn  *)
(*    with \E where the code asks for them.                                *)
(*  - The caller's cfg is never written by the code. The model fixes the   *)
(*    entries the compilation does not depend on (cfg["src"],              *)
(*    cfg["preview_duration"], the content of an asset pool) at the step   *)
(*    that first depends on them; until then src is UNREAD and a pool is   *)
(*    outside DOMAIN assets.                                               *)
(***************************************************************************)
EXTENDS Integers, Sequences, FiniteSets, TLC

(***************************************************************************)
(* Bounds of the model.                                                    *)
(***************************************************************************)
\* at most this many effects are compiled in one call
MaxCompiled == 2
\* at most this many asset files over all pools of one assets dict
MaxAssets == 2
\* the child process emits at most this many output lines
MaxLines == 2
\* an output line has at most this many characters before its newline
MaxLineLen == 2
\* at most this many effects are compiled in a call of generate_preview or
\* generate, whose run_subprocess is followed read by read
MaxPipelineCompiled == 1
\* the caller's chosen_effects holds at most this many entries when its
\* order is followed
MaxChosen == 2
\* _assemble_filter_complex is called at most this many times on one mapping
MaxCalls == 2

NONE == "<None>"

\* cfg["src"] before the step that first depends on it
UNREAD == "<unread>"

Truthy(p) == p # NONE /\ p # ""

Min(a, b) == IF a <= b THEN a ELSE b
Max(a, b) == IF a >= b THEN a ELSE b

\* int(x) of a quotient: truncation toward zero
TruncDiv(a, b) == IF a >= 0 THEN a \div b ELSE -((-a) \div b)

(***************************************************************************)
(* effects.py: the catalog                                                 *)
(***************************************************************************)
\* EFFECTS_METADATA.keys(), in declaration order
EFFECTS_KEYS ==
  << "random_sound", "sounds", "reverse", "speed", "chorus", "vibrato",
     "stutter", "earrape", "autotune", "dance_squid", "invert", "rainbow",
     "mirror", "sus", "explosion_spam", "frame_shuffle", "meme_injection",
     "meme_sounds", "memes", "sentence_mix", "adverts", "errors", "images",
     "overlay_videos" >>

NumKeys == Len(EFFECTS_KEYS)

\* EFFECTS_METADATA[key]["default_level"], in milli
default_level ==
  [ random_sound |-> 1000, sounds |-> 1000, reverse |-> 1000, speed |-> 1000,
    chorus |-> 600, vibrato |-> 1000, stutter |-> 500, earrape |-> 6000,
    autotune |-> 1000, dance_squid |-> 1000, invert |-> 1000, rainbow |-> 1000,
    mirror |-> 1000, sus |-> 1000, explosion_spam |-> 2000,
    frame_shuffle |-> 1000, meme_injection |-> 1000, meme_sounds |-> 1000,
    memes |-> 1000, sentence_mix |-> 1000, adverts |-> 1000, errors |-> 1000,
    images |-> 1000, overlay_videos |-> 1000 ]

\* EFFECTS_METADATA[key]["max_level"], in milli
max_level ==
  [ random_sound |-> 5000, sounds |-> 5000, reverse |-> 1000, speed |-> 4000,
    chorus |-> 2000, vibrato |-> 2000, stutter |-> 3000, earrape |-> 30000,
    autotune |-> 1000, dance_squid |-> 3000, invert |-> 1000, rainbow |-> 1000,
    mirror |-> 1000, sus |-> 3000, explosion_spam |-> 10000,
    frame_shuffle |-> 1000, meme_injection |-> 3000, meme_sounds |-> 3000,
    memes |-> 3000, sentence_mix |-> 5000, adverts |-> 3000, errors |-> 3000,
    images |-> 5000, overlay_videos |-> 5000 ]

\* the pool names the builders look up in the assets dict
PoolNames ==
  << "sounds", "images", "memes", "meme_sounds", "adverts", "errors",
     "overlays_videos" >>

PoolSet == { PoolNames[i] : i \in 1..Len(PoolNames) }

\* the i-th file of a pool, as assets.gather_assets lists it
PoolFile(p, i) == p \o "/" \o ToString(i)

(***************************************************************************)
(* Tokens of a filter template                                             *)
(***************************************************************************)
\* "{jv}" / "{ja}"
PH(j, k) == [t |-> "ph", n |-> j, s |-> k]
\* "[g:v]" / "[g:a]"
REF(g, k) == [t |-> "ref", n |-> g, s |-> k]
\* "[vout]" / "[aout]"
LAB(l) == [t |-> "label", n |-> 0, s |-> l]
\* literal filter text
LIT(x) == [t |-> "lit", n |-> 0, s |-> x]
\* a formatted number, in the named unit ("milli", "micro", "int",
\* or "recip-milli" for 1.0/x of a milli value x)
NUM(v, unit) == [t |-> "num", n |-> v, s |-> unit]

V0 == PH(0, "v")
A0 == PH(0, "a")
VOUT == LAB("vout")
AOUT == LAB("aout")

\* '{0v}copy[vout]'
TplCopyV == << V0, LIT("copy"), VOUT >>
\* '{0a}anull[aout]'
TplAnullA == << A0, LIT("anull"), AOUT >>
\* '[vtmp]copy[vout]'
TplVtmpOut == << LIT("[vtmp]copy"), VOUT >>

\* {"inputs": [], "filters": ["{0v}copy[vout]", "{0a}anull[aout]"]}
NoopFragment == [inputs |-> << >>, filters |-> << TplCopyV, TplAnullA >>]

Fragment(ins, fs) == [inputs |-> ins, filters |-> fs]

(***************************************************************************)
(* effects.py: _choose_asset and the builders                              *)
(***************************************************************************)
\* assets.get(pool, [])
AssetsGet(assets, pool) ==
  IF pool \in DOMAIN assets THEN assets[pool] ELSE << >>

\* _choose_asset(list_assets); c is the index random.choice draws
_choose_asset(list_assets, c) ==
  IF list_assets = << >> THEN NONE ELSE list_assets[c]

\* Python's `a or b` on paths
OrPath(a, b) == IF Truthy(a) THEN a ELSE b

\* max(lo, min(hi, x))
Clamp(lo, hi, x) == Max(lo, Min(hi, x))

\* floor(log2(m / 1000)): the binary exponent of the float m / 1000, m >= 1
RECURSIVE Log2Milli(_)
Log2Milli(m) ==
  IF m >= 2000 THEN 1 + Log2Milli(m \div 2)
  ELSE IF m < 1000 THEN Log2Milli(m * 2) - 1
  ELSE 0

\* 2^e modulo n
RECURSIVE Pow2Mod(_, _)
Pow2Mod(e, n) == IF e = 0 THEN 1 % n ELSE (2 * Pow2Mod(e - 1, n)) % n

\* the sign of float(m / 1000) - m / 1000 for the binary64 float nearest to
\* m / 1000: its 53-bit significand is m * 2^e / 1000 rounded to the nearest
\* integer (ties to even), e = 52 - Log2Milli(m)
FloatErrMilli(m) ==
  LET rem2 == ((m % 2000) * Pow2Mod(52 - Log2Milli(m), 2000)) % 2000
      r == rem2 % 1000
  IN  IF r = 0 THEN 0
      ELSE IF r < 500 THEN -1
      ELSE IF r > 500 THEN 1
      ELSE IF rem2 >= 1000 THEN 1 ELSE -1

\* round(t, 3) of the float nearest to t micro units, as a multiple of 1000
\* micro. round() rounds the binary value: a decimal tie (t ends in 500,
\* so t is half of the odd milli value t / 500, whose float is halved
\* exactly) goes the way the float lies off the tie.
Round3(t) ==
  LET q == t \div 1000
      r == t % 1000
  IN  IF r < 500 THEN q * 1000
      ELSE IF r > 500 THEN (q + 1) * 1000
      ELSE IF FloatErrMilli(t \div 500) > 0 THEN (q + 1) * 1000
      ELSE IF FloatErrMilli(t \div 500) < 0 THEN q * 1000
      ELSE IF q % 2 = 0 THEN q * 1000 ELSE (q + 1) * 1000

\* the atempo chain of the speed effect; t in micro units
RECURSIVE TemposUp(_)
TemposUp(t) ==
  IF t < 500000 THEN << 500000 >> \o TemposUp(t * 2) ELSE << Round3(t) >>

\* TemposDown without the loop that splits off factors of 2.0
TemposDownNoChain(t) == << Round3(t) >>

RECURSIVE TemposDown(_)
TemposDown(t) ==
  IF t > 2000000 THEN << 2000000 >> \o TemposDown(t \div 2) ELSE << Round3(t) >>

SpeedTempos(factor) ==
  IF factor < 500 THEN TemposUp(factor * 1000) ELSE TemposDown(factor * 1000)

\* ",".join("atempo={}".format(x) for x in tempos)
RECURSIVE AtempoChain(_)
AtempoChain(tempos) ==
  IF tempos = << >> THEN << >>
  ELSE << LIT("atempo="), NUM(Head(tempos), "micro") >>
       \o (IF Len(tempos) = 1 THEN << >> ELSE << LIT(",") >>)
       \o AtempoChain(Tail(tempos))

BuildRandomSound ==
  Fragment(<< >>, << TplCopyV, << A0, LIT("volume=1.0"), AOUT >> >>)

\* '{0a}[maina]; {1a}[in1]; [maina][in1]amix=inputs=2:duration=first:dropout_transition=2[aout]'
TplMixSounds ==
  << A0, LIT("[maina]; "), PH(1, "a"),
     LIT("[in1]; [maina][in1]amix=inputs=2:duration=first:dropout_transition=2"),
     AOUT >>

\* '{0a}[maina]; {1a}[sfx]; [maina][sfx]amix=inputs=2:duration=first[aout]'
TplMixSfx ==
  << A0, LIT("[maina]; "), PH(1, "a"),
     LIT("[sfx]; [maina][sfx]amix=inputs=2:duration=first"), AOUT >>

\* '{0a}[m]; {1a}[s]; [m][s]amix=inputs=2:duration=first[aout]'
TplMixMemes ==
  << A0, LIT("[m]; "), PH(1, "a"),
     LIT("[s]; [m][s]amix=inputs=2:duration=first"), AOUT >>

BuildSounds(assets, c1) ==
  LET chosen == _choose_asset(AssetsGet(assets, "sounds"), c1)
  IN  IF ~Truthy(chosen) THEN NoopFragment
      ELSE Fragment(<< chosen >>, << TplCopyV, TplMixSounds >>)

BuildReverse ==
  Fragment(<< >>,
    << << V0, LIT("reverse[vrev]") >>,
       << A0, LIT("areverse[arev]") >>,
       << LIT("[vrev]setpts=PTS-STARTPTS"), VOUT >>,
       << LIT("[arev]asetpts=PTS-STARTPTS"), AOUT >> >>)

BuildSpeed(level) ==
  LET factor == Clamp(125, 4000, level)
      tempos == SpeedTempos(factor)
  IN  Fragment(<< >>,
        << << V0, LIT("setpts="), NUM(factor, "recip-milli"), LIT("*PTS"), VOUT >>,
           << A0 >> \o AtempoChain(tempos) \o << AOUT >> >>)

\* 2^n, n >= 0
RECURSIVE Pow2(_)
Pow2(n) == IF n = 0 THEN 1 ELSE 2 * Pow2(n - 1)

\* the least power of two above a, searched from p upward
RECURSIVE PowAbove(_, _)
PowAbove(a, p) == IF p > a THEN p ELSE PowAbove(a, 2 * p)

\* level * 60 of the binary64 float nearest to m / 1000, when m / 1000 * 60
\* is an integer (m a multiple of 50): TRUE when the float product is one
\* unit in the last place nearer to zero than that integer. The float of
\* |m| / 1000 lies r / 1000 of its last place below the decimal value, r the
\* remainder of |m| * 2^e by 1000, e = 52 - Log2Milli(|m|); sixty times that
\* is more than half a last place of the product when r > 266, the last
\* place of the product being 32 times that of the level, which is the case
\* when the significand of the level is below 16/15.
ProductBelow(m) ==
  LET a == IF m >= 0 THEN m ELSE -m
  IN  /\ a # 0
      /\ a % 50 = 0
      /\ LET L == Log2Milli(a)
             r == ((a % 1000) * Pow2Mod(52 - L, 1000)) % 1000
         IN  /\ r >= 267
             /\ r < 500
             /\ IF L >= 0 THEN 15 * a < 16000 * Pow2(L)
                          ELSE 15 * a * Pow2(-L) < 16000

\* int(20 + level * 60) of the float level nearest to m / 1000. Off the
\* multiples of 50 the float sum is within rounding of a value at least 0.02
\* from an integer; on them it is the integer n unless the product fell
\* short of it: then a positive sum is just below n, except where a power of
\* two between the product and n makes the sum round up to n, and a negative
\* sum is just above n.
ChorusDelay(m) ==
  LET exact == TruncDiv(20000 + m * 60, 1000)
      n == (20000 + m * 60) \div 1000
  IN  IF ~ProductBelow(m) THEN exact
      ELSE IF m > 0
           THEN (IF PowAbove(n - 20, 1) < n THEN exact ELSE exact - 1)
           ELSE (IF n < 0 THEN exact + 1 ELSE exact)

BuildChorus(level) ==
  LET delay == ChorusDelay(level)
      decay == Clamp(100000, 900000, 200000 + level * 200)
  IN  Fragment(<< >>,
        << TplCopyV,
           << A0, LIT("aecho=0.8:0.9:"), NUM(delay, "int"), LIT("|"),
              NUM(delay * 2, "int"), LIT(":"), NUM(decay, "micro"), LIT("|"),
              NUM((decay \div 10) * 6, "micro"), AOUT >> >>)

BuildVibrato(level) ==
  LET pitch == Clamp(500, 2000, level)
  IN  Fragment(<< >>,
        << TplCopyV,
           << A0, LIT("asetrate=44100*"), NUM(pitch, "milli"),
              LIT(",aresample=44100,atempo="), NUM(pitch, "recip-milli"),
              AOUT >> >>)

BuildStutter(level) ==
  LET loop_count == Max(2, TruncDiv(level * 3, 1000))
  IN  Fragment(<< >>,
        << << V0, LIT("trim=0:0.15,setpts=PTS-STARTPTS[vst]") >>,
           << LIT("[vst]loop="), NUM(loop_count, "int"), LIT(":1:0[vstl]") >>,
           << A0, LIT("atrim=0:0.15,asetpts=PTS-STARTPTS[ast]") >>,
           << LIT("[ast]aloop=loop="), NUM(loop_count, "int"), LIT(":size=2[astl]") >>,
           << LIT("[vstl]scale=iw:ih"), VOUT >>,
           << LIT("[astl]anull"), AOUT >> >>)

BuildEarrape(level) ==
  LET gain == Clamp(2000, 30000, level)
  IN  Fragment(<< >>,
        << << V0, LIT("eq=contrast=1.1:saturation=1.4"), VOUT >>,
           << A0, LIT("volume="), NUM(gain, "milli"), AOUT >> >>)

BuildDanceSquid(level) ==
  LET zoom == 1000000 + 50 * level
  IN  Fragment(<< >>,
        << << V0, LIT("scale=iw*"), NUM(zoom, "micro"), LIT(":ih*"),
              NUM(zoom, "micro"),
              LIT(",transpose=1,transpose=2,format=yuv420p"), VOUT >>,
           << A0, LIT("atempo=1.0"), AOUT >> >>)

BuildInvert ==
  Fragment(<< >>, << << V0, LIT("negate"), VOUT >>, TplAnullA >>)

BuildMirror ==
  Fragment(<< >>, << << V0, LIT("hflip"), VOUT >>, TplAnullA >>)

BuildFrameShuffle ==
  Fragment(<< >>,
    << << V0, LIT("tblend=all_mode='addition',framestep=1"), VOUT >>,
       TplAnullA >>)

\* '{0v}{1v}overlay=10:10:shortest=1[vout]'
TplRainbow == << V0, PH(1, "v"), LIT("overlay=10:10:shortest=1"), VOUT >>

\* exists is os.path.exists(overlay_path)
BuildRainbow(overlay_path, assets, exists, c1) ==
  IF Truthy(overlay_path) /\ exists
  THEN Fragment(<< overlay_path >>, << TplRainbow, TplAnullA >>)
  ELSE LET chosen == _choose_asset(AssetsGet(assets, "images"), c1)
       IN  IF Truthy(chosen)
           THEN Fragment(<< chosen >>, << TplRainbow, TplAnullA >>)
           ELSE NoopFragment

\* OverlayVtmp without its audio template
OverlayVtmpNoAudio(chosen, text) ==
  Fragment(<< chosen >>, << << V0, PH(1, "v"), LIT(text) >>, TplVtmpOut >>)

\* the three-template overlay fragment of explosion_spam, adverts, errors,
\* images and overlay_videos; text is the overlay filter with its [vtmp] label
OverlayVtmp(chosen, text) ==
  Fragment(<< chosen >>,
    << << V0, PH(1, "v"), LIT(text) >>, TplVtmpOut, TplAnullA >>)

BuildExplosionSpam(overlay_path, assets, c1) ==
  LET chosen == OrPath(_choose_asset(AssetsGet(assets, "images"), c1), overlay_path)
  IN  IF Truthy(chosen)
      THEN OverlayVtmp(chosen, "overlay=enable='between(t,0,0.6)':x=10:y=10[vtmp]")
      ELSE NoopFragment

BuildMemeInjection(overlay_path, assets, c1, c2) ==
  LET chosen_img == OrPath(_choose_asset(AssetsGet(assets, "memes"), c1), overlay_path)
      chosen_snd == _choose_asset(AssetsGet(assets, "meme_sounds"), c2)
      inputs1 == IF Truthy(chosen_img) THEN << chosen_img >> ELSE << >>
      filters1 == IF Truthy(chosen_img)
                  THEN << << V0, PH(1, "v"), LIT("overlay=W-w-10:H-h-10[vtmp]") >> >>
                  ELSE << << V0, LIT("copy[vtmp]") >> >>
  IN  IF Truthy(chosen_snd)
      THEN Fragment(Append(inputs1, chosen_snd),
                    filters1 \o << TplMixSfx, TplVtmpOut >>)
      ELSE Fragment(inputs1, filters1 \o << TplAnullA, TplVtmpOut >>)

BuildMemeSounds(assets, c1) ==
  LET chosen == _choose_asset(AssetsGet(assets, "meme_sounds"), c1)
  IN  IF ~Truthy(chosen) THEN NoopFragment
      ELSE Fragment(<< chosen >>, << TplCopyV, TplMixSfx >>)

BuildMemes(assets, c1, c2) ==
  LET chosen_img == _choose_asset(AssetsGet(assets, "memes"), c1)
      chosen_snd == _choose_asset(AssetsGet(assets, "meme_sounds"), c2)
      inputs1 == IF Truthy(chosen_img) THEN << chosen_img >> ELSE << >>
      filters1 == IF Truthy(chosen_img)
                  THEN << << V0, PH(1, "v"), LIT("overlay=10:10:shortest=1[vtmp]") >> >>
                  ELSE << << V0, LIT("copy[vtmp]") >> >>
      inputs2 == IF Truthy(chosen_snd) THEN Append(inputs1, chosen_snd) ELSE inputs1
      filters2 == IF Truthy(chosen_snd)
                  THEN Append(filters1, TplMixMemes)
                  ELSE Append(filters1, TplAnullA)
  IN  Fragment(inputs2, Append(filters2, TplVtmpOut))

\* adverts, errors, images, overlay_videos: one pool, one overlay text
BuildPoolOverlay(assets, pool, text, c1) ==
  LET chosen == _choose_asset(AssetsGet(assets, pool), c1)
  IN  IF Truthy(chosen) THEN OverlayVtmp(chosen, text) ELSE NoopFragment

\* build_effect_command_for(key, level, src_path, overlay_path, assets).
\* env.exists is os.path.exists(overlay_path); env.c1 and env.c2 are the
\* indices drawn by the first and second random.choice of the call.
build_effect_command_for(key, level, src_path, overlay_path, assets, env) ==
  CASE key = "random_sound" -> BuildRandomSound
    [] key = "sounds" -> BuildSounds(assets, env.c1)
    [] key = "reverse" -> BuildReverse
    [] key = "speed" -> BuildSpeed(level)
    [] key = "chorus" -> BuildChorus(level)
    [] key = "vibrato" -> BuildVibrato(level)
    [] key = "stutter" -> BuildStutter(level)
    [] key = "earrape" -> BuildEarrape(level)
    [] key = "autotune" -> NoopFragment
    [] key = "dance_squid" -> BuildDanceSquid(level)
    [] key = "invert" -> BuildInvert
    [] key = "rainbow" -> BuildRainbow(overlay_path, assets, env.exists, env.c1)
    [] key = "mirror" -> BuildMirror
    [] key = "sus" -> NoopFragment
    [] key = "explosion_spam" -> BuildExplosionSpam(overlay_path, assets, env.c1)
    [] key = "frame_shuffle" -> BuildFrameShuffle
    [] key = "meme_injection" ->
         BuildMemeInjection(overlay_path, assets, env.c1, env.c2)
    [] key = "meme_sounds" -> BuildMemeSounds(assets, env.c1)
    [] key = "memes" -> BuildMemes(assets, env.c1, env.c2)
    [] key = "sentence_mix" -> NoopFragment
    [] key = "adverts" ->
         BuildPoolOverlay(assets, "adverts",
           "overlay=enable='between(t,0,3)':x=W-w-10:y=10[vtmp]", env.c1)
    [] key = "errors" ->
         BuildPoolOverlay(assets, "errors",
           "overlay=enable='gt(mod(t,0.8),0.0)':x=0:y=0[vtmp]", env.c1)
    [] key = "images" ->
         BuildPoolOverlay(assets, "images",
           "overlay=enable='between(t,1,4)':x=main_w/4:y=main_h/4:alpha='if(lt(t,2),0,1)'[vtmp]",
           env.c1)
    [] key = "overlay_videos" ->
         BuildPoolOverlay(assets, "overlays_videos",
           "overlay=10:10:shortest=1[vtmp]", env.c1)
    [] OTHER -> NoopFragment

(***************************************************************************)
(* State                                                                   *)
(***************************************************************************)
VARIABLES
  \* generate_preview / generate (ffmpeg_worker.py)
  pc,                   \* position in the handler
  mode,                 \* "preview" (generate_preview) or "generate"
  src,                  \* cfg["src"]
  overlay,              \* cfg.get("overlay")
  duration,             \* int(cfg.get("preview_duration", 8)); 0 in generate
  assets,               \* cfg.get("assets", {}): the pools read so far
  ki,                   \* index in EFFECTS_KEYS of the key the loop is at
  extra_inputs,         \* _assemble_filter_complex: extra_inputs
  filters,              \* _assemble_filter_complex: filters
  global_input_offset,  \* _assemble_filter_complex: global_input_offset
  filter_complex,       \* the joined graph description
  cmd,                  \* the argument vector
  failure,              \* the RuntimeError raised, if any
  spawned,              \* the argument vectors handed to subprocess.Popen
  fs,                   \* os.path.isfile as _verify_files_exist observed it
  \* history of the compilation
  compiled,             \* one record per effect compiled, in order
  any_enabled,          \* whether a key met so far was enabled
  step,                 \* what the last pass of the loop did with its key
  \* run_subprocess (utils.py)
  rpc,                  \* position in run_subprocess
  child,                \* "none", "running" or "exited"
  pipe,                 \* lines written by the child and not read yet
  emitted,              \* every line the child has written
  sink,                 \* the calls log_fn has received
  kills,                \* number of process.kill() calls that signalled the child
  rc,                   \* the status process.wait() returned
  result,               \* how run_subprocess ended
  \* one call of build_effect_command_for (effects.py)
  b_in,                 \* the arguments and the environment's draws
  b_out,                \* the fragment returned
  \* repeated calls of _assemble_filter_complex (ffmpeg_worker.py)
  chosen_effects,       \* the caller's dict: its entries in insertion order
  overlay_exists,       \* what os.path.exists(overlay_path) answers
  random_stream,        \* the results of the random module since the seed
  drawn,                \* how many of them the call under way has consumed
  returned              \* what the calls made so far were given and returned

genVars == << pc, mode, src, overlay, duration, assets, ki, extra_inputs,
              filters, global_input_offset, filter_complex, cmd, failure,
              spawned, fs, compiled, any_enabled, step >>
runVars == << rpc, child, pipe, emitted, sink, kills, rc, result >>
buildVars == << b_in, b_out >>
twiceVars == << chosen_effects, overlay_exists, random_stream, drawn, returned >>
vars == << genVars, runVars, buildVars, twiceVars >>

(***************************************************************************)
(* ffmpeg_worker.py: _assemble_filter_complex                              *)
(***************************************************************************)
Range(f) == { f[i] : i \in DOMAIN f }

\* the pools a builder reads, in the order of its _choose_asset calls
PoolsOf(key, overlay_path, exists) ==
  CASE key = "sounds" -> << "sounds" >>
    [] key = "rainbow" ->
         IF Truthy(overlay_path) /\ exists THEN << >> ELSE << "images" >>
    [] key = "explosion_spam" -> << "images" >>
    [] key = "meme_injection" -> << "memes", "meme_sounds" >>
    [] key = "meme_sounds" -> << "meme_sounds" >>
    [] key = "memes" -> << "memes", "meme_sounds" >>
    [] key = "adverts" -> << "adverts" >>
    [] key = "errors" -> << "errors" >>
    [] key = "images" -> << "images" >>
    [] key = "overlay_videos" -> << "overlays_videos" >>
    [] OTHER -> << >>

\* a pool of n files
PoolOfSize(p, n) == [i \in 1..n |-> PoolFile(p, i)]

RECURSIVE SumLen(_, _)
SumLen(a, ps) ==
  IF ps = {} THEN 0
  ELSE LET p == CHOOSE q \in ps : TRUE
       IN  Len(a[p]) + SumLen(a, ps \ {p})

\* the assets dicts that agree with a on the pools already read and fix the
\* content of the pools in ps
Reveal(a, ps) ==
  LET new == Range(ps) \ DOMAIN a
      used == SumLen(a, DOMAIN a)
  IN  { b \in { [p \in DOMAIN a \cup new |->
                   IF p \in DOMAIN a THEN a[p] ELSE PoolOfSize(p, sz[p])] :
                sz \in [new -> 0..(MaxAssets - used)] } :
        SumLen(b, DOMAIN b) <= MaxAssets }

\* the indices random.choice can return on the i-th pool the builder reads
ChoiceRange(a, ps, i) ==
  IF i <= Len(ps) /\ Len(AssetsGet(a, ps[i])) > 0
  THEN 1..Len(AssetsGet(a, ps[i])) ELSE {1}

\* RewriteToken with the replacements of line 80 only
RewriteTokenPrimaryOnly(tok, start, num_local) ==
  IF tok.t = "ph" /\ tok.n = 0 THEN REF(0, tok.s) ELSE tok

\* frag.replace("{0v}", "[0:v]").replace("{0a}", "[0:a]") and, for j in
\* 1..num_local, the replacement of "{jv}"/"{ja}" by the global reference
RewriteToken(tok, start, num_local) ==
  IF tok.t # "ph" THEN tok
  ELSE IF tok.n = 0 THEN REF(0, tok.s)
  ELSE IF tok.n >= 1 /\ tok.n <= num_local THEN REF(start + (tok.n - 1), tok.s)
  ELSE tok

RewriteFragment(fragment, start, num_local) ==
  [i \in 1..Len(fragment) |-> RewriteToken(fragment[i], start, num_local)]

RewriteAll(fs_, start, num_local) ==
  [i \in 1..Len(fs_) |-> RewriteFragment(fs_[i], start, num_local)]

\* ["[0:v]copy[vout]", "[0:a]anull[aout]"]
GlobalNoop ==
  << << REF(0, "v"), LIT("copy"), VOUT >>, << REF(0, "a"), LIT("anull"), AOUT >> >>

\* "; ".join(filters)
RECURSIVE Join(_)
Join(fl) ==
  IF fl = << >> THEN << >>
  ELSE IF Len(fl) = 1 THEN fl[1]
  ELSE fl[1] \o << LIT("; ") >> \o Join(Tail(fl))

\* the values a selection can hold
Probabilities == {500, 1000}
RandomDraws == {250, 750}

\* a gate that calls random.random() whatever p is
GateCallsAlways(p) == 1

\* the number of random.random() calls of `p < 1.0 and random.random() > p`
GateCalls(p) == IF p < 1000 THEN 1 ELSE 0

\* no pass of the loop is under way
NoStep == [kind |-> "none", enabled |-> FALSE, p |-> 0, draws |-> 0, builds |-> 0]

\* random.random() is called only when p < 1.0
GateDraws(p) == IF p < 1000 THEN RandomDraws ELSE {0}
Levels == {0, 50000}

\* whether the builder of key reads its level
UsesLevel(key) ==
  key \in {"speed", "chorus", "vibrato", "stutter", "earrape", "dance_squid"}

\* float(cfg.get("level", EFFECTS_METADATA[key].get("default_level", 1.0))):
\* the level of the selection, or the default when the selection has none.
\* A builder that never reads its level is given the default only.
LevelChoices(key) ==
  IF UsesLevel(key) THEN Levels \cup {default_level[key]} ELSE {default_level[key]}

\* the key is absent from chosen_effects or not enabled: continue
LoopSkipDisabled ==
  /\ pc = "assemble"
  /\ ki <= NumKeys
  /\ ki' = ki + 1
  /\ step' = [kind |-> "disabled", enabled |-> FALSE, p |-> 0,
               draws |-> 0, builds |-> 0]
  /\ UNCHANGED << pc, mode, src, overlay, duration, assets, extra_inputs,
                  filters, global_input_offset, filter_complex, cmd, failure,
                  spawned, fs, compiled, any_enabled >>
  /\ UNCHANGED << runVars, buildVars, twiceVars >>

\* the key is enabled, p < 1.0 and random.random() > p: continue
LoopSkipGate ==
  /\ pc = "assemble"
  /\ ki <= NumKeys
  /\ \E p \in Probabilities :
     \E r \in GateDraws(p) :
       /\ p < 1000 /\ r > p
       /\ ki' = ki + 1
       /\ step' = [kind |-> "gated", enabled |-> TRUE, p |-> p,
                    draws |-> GateCalls(p), builds |-> 0]
  /\ any_enabled' = TRUE
  /\ UNCHANGED << pc, mode, src, overlay, duration, assets, extra_inputs,
                  filters, global_input_offset, filter_complex, cmd, failure,
                  spawned, fs, compiled >>
  /\ UNCHANGED << runVars, buildVars, twiceVars >>

\* Allocate with the counter advanced once per effect, not once per input
AllocatePerEffect(st, key, frag) ==
  LET this_effect_start_index == st.global_input_offset
      num_local == Len(frag.inputs)
  IN  [ extra_inputs |-> st.extra_inputs \o frag.inputs,
        global_input_offset |-> st.global_input_offset
                                  + (IF frag.inputs = << >> THEN 0 ELSE 1),
        filters |-> st.filters
                      \o RewriteAll(frag.filters, this_effect_start_index, num_local),
        start |-> this_effect_start_index ]

\* lines 73-86: allocate the slots of cmd's inputs and rewrite its filters
Allocate(st, key, frag) ==
  LET this_effect_start_index == st.global_input_offset
      num_local == Len(frag.inputs)
  IN  [ extra_inputs |-> st.extra_inputs \o frag.inputs,
        global_input_offset |-> st.global_input_offset + Len(frag.inputs),
        filters |-> st.filters
                      \o RewriteAll(frag.filters, this_effect_start_index, num_local),
        start |-> this_effect_start_index ]

\* the bound on the effects compiled: of a call of _assemble_filter_complex
\* alone, or of one made by generate_preview or generate
CompileBound == IF mode = "none" THEN MaxCompiled ELSE MaxPipelineCompiled

\* the key is enabled and passes the gate: build, allocate, rewrite
LoopCompile ==
  /\ pc = "assemble"
  /\ ki <= NumKeys
  /\ Len(compiled) < CompileBound
  /\ LET key == EFFECTS_KEYS[ki] IN
     \E p \in Probabilities, level \in LevelChoices(key), exists \in BOOLEAN :
     \E r \in GateDraws(p) :
       \* `p < 1.0 and random.random() > p` is false
       /\ ~(p < 1000 /\ r > p)
       \* os.path.exists is asked by rainbow only, for a truthy overlay
       /\ ~(key = "rainbow" /\ Truthy(overlay)) => ~exists
       /\ LET ps == PoolsOf(key, overlay, exists) IN
          \E a \in Reveal(assets, ps) :
          \E c1 \in ChoiceRange(a, ps, 1), c2 \in ChoiceRange(a, ps, 2) :
            LET frag == build_effect_command_for(key, level, src, overlay, a,
                          [exists |-> exists, c1 |-> c1, c2 |-> c2])
                st == [extra_inputs |-> extra_inputs, filters |-> filters,
                       global_input_offset |-> global_input_offset]
                nx == Allocate(st, key, frag)
            IN  /\ assets' = a
                /\ extra_inputs' = nx.extra_inputs
                /\ global_input_offset' = nx.global_input_offset
                /\ filters' = nx.filters
                /\ compiled' = Append(compiled,
                     [key |-> key, start |-> nx.start, at |-> Len(filters),
                      inputs |-> frag.inputs, templates |-> frag.filters,
                      level |-> level,
                      env |-> [exists |-> exists, c1 |-> c1, c2 |-> c2]])
                /\ step' = [kind |-> "compiled", enabled |-> TRUE, p |-> p,
                             draws |-> GateCalls(p), builds |-> 1]
  /\ ki' = ki + 1
  /\ any_enabled' = TRUE
  /\ UNCHANGED << pc, mode, src, overlay, duration, filter_complex, cmd,
                  failure, spawned, fs >>
  /\ UNCHANGED << runVars, buildVars, twiceVars >>

\* FinalFilters without the fallback of line 88
FinalFiltersNoFallback(fl) == fl

\* lines 88-91: the fallback, the join and the return
FinalFilters(fl) == IF fl = << >> THEN GlobalNoop ELSE fl

LoopEnd ==
  /\ pc = "assemble"
  /\ ki = NumKeys + 1
  /\ filters' = FinalFilters(filters)
  /\ filter_complex' = Join(FinalFilters(filters))
  /\ pc' = "assembled"
  /\ step' = NoStep
  /\ UNCHANGED << mode, src, overlay, duration, assets, ki, extra_inputs,
                  global_input_offset, cmd, failure, spawned, fs, compiled,
                  any_enabled >>
  /\ UNCHANGED << runVars, buildVars, twiceVars >>

(***************************************************************************)
(* ffmpeg_worker.py: _verify_files_exist, generate_preview, generate       *)
(***************************************************************************)
\* the paths _verify_files_exist hands to os.path.isfile
PathsChecked(src_path, extra) ==
  { p \in {src_path} \cup Range(extra) : Truthy(p) }

\* not p or not os.path.isfile(p)
IsMissing(p, isfile) == ~Truthy(p) \/ ~isfile[p]

RECURSIVE MissingExtras(_, _)
MissingExtras(extra, isfile) ==
  IF extra = << >> THEN << >>
  ELSE (IF IsMissing(Head(extra), isfile)
        THEN << [kind |-> "extra", path |-> Head(extra)] >> ELSE << >>)
       \o MissingExtras(Tail(extra), isfile)

\* _verify_files_exist without the loop over extra_inputs
VerifySourceOnly(src_path, extra, isfile) ==
  IF IsMissing(src_path, isfile)
  THEN << [kind |-> "source", path |-> src_path] >> ELSE << >>

\* the list `missing` of _verify_files_exist
_verify_files_exist(src_path, extra, isfile) ==
  (IF IsMissing(src_path, isfile)
   THEN << [kind |-> "source", path |-> src_path] >> ELSE << >>)
  \o MissingExtras(extra, isfile)

Sources == {NONE, "clip.mp4"}
Overlays == {NONE, "overlay.png"}
Durations == {8, 10}

NoFailure == [kind |-> "none", missing |-> << >>]

\* self._verify_files_exist(src, extra_inputs)
Verify ==
  /\ pc = "assembled"
  /\ mode # "none"
  /\ \E s \in Sources :
     \E isfile \in [PathsChecked(s, extra_inputs) -> BOOLEAN] :
       LET missing == _verify_files_exist(s, extra_inputs, isfile)
       IN  /\ src' = s
           /\ fs' = isfile
           /\ IF missing # << >>
              THEN /\ failure' = [kind |-> "missing-input", missing |-> missing]
                   /\ pc' = "failed"
              ELSE /\ failure' = failure
                   /\ pc' = "build_cmd"
  /\ UNCHANGED << mode, overlay, duration, assets, ki, extra_inputs,
                  filters, global_input_offset, filter_complex, cmd, spawned,
                  compiled, any_enabled, step >>
  /\ UNCHANGED << runVars, buildVars, twiceVars >>

\* one element of the argument vector: a string, or the graph description
ARG(x) == [k |-> "str", s |-> x, g |-> << >>]
GRAPH(g) == [k |-> "graph", s |-> "", g |-> g]

Args(xs) == [i \in 1..Len(xs) |-> ARG(xs[i])]

\* self.ffmpeg
FFMPEG == "ffmpeg"

\* os.path.join(tmpdir, "preview.mp4") / the out_path argument of generate
OutPath(m) == IF m = "preview" THEN "ytp_preview_/preview.mp4" ELSE "out.mp4"

\* the extra inputs listed last to first
InputArgsReversed(extra) ==
  [i \in 1..(2 * Len(extra)) |->
     IF i % 2 = 1 THEN ARG("-i") ELSE ARG(extra[Len(extra) - (i \div 2) + 1])]

\* for inp in extra_inputs: cmd.extend(["-i", inp])
RECURSIVE InputArgs(_)
InputArgs(extra) ==
  IF extra = << >> THEN << >>
  ELSE << ARG("-i"), ARG(Head(extra)) >> \o InputArgs(Tail(extra))

\* if filter_complex: cmd.extend(["-filter_complex", ..., "-map", "[vout]", "-map", "[aout]"])
GraphArgs(fc) ==
  IF fc # << >>
  THEN << ARG("-filter_complex"), GRAPH(fc) >>
       \o Args(<< "-map", "[vout]", "-map", "[aout]" >>)
  ELSE << >>

\* generate_preview, lines 107-112
PreviewCmd(src_path, dur, extra, fc, out_path) ==
  Args(<< FFMPEG, "-y", "-ss", "0", "-t", ToString(dur), "-i", src_path >>)
  \o InputArgs(extra)
  \o GraphArgs(fc)
  \o Args(<< "-c:v", "libx264", "-preset", "veryfast", "-crf", "28", "-c:a",
             "aac", "-shortest", out_path >>)

\* generate, lines 128-133
GenerateCmd(src_path, extra, fc, out_path) ==
  Args(<< FFMPEG, "-y", "-i", src_path >>)
  \o InputArgs(extra)
  \o GraphArgs(fc)
  \o Args(<< "-c:v", "libx264", "-preset", "fast", "-crf", "20", "-c:a", "aac",
             "-b:a", "192k", out_path >>)

\* a call of log_fn: its first argument and, for a line of the child, the line
LogCall(tag, line) == [tag |-> tag, line |-> line]

\* the command is built and logged
BuildCommand ==
  /\ pc = "build_cmd"
  /\ \E d \in (IF mode = "preview" THEN Durations ELSE {0}) :
       /\ duration' = d
       /\ cmd' = IF mode = "preview"
                 THEN PreviewCmd(src, d, extra_inputs, filter_complex, OutPath(mode))
                 ELSE GenerateCmd(src, extra_inputs, filter_complex, OutPath(mode))
  /\ sink' = Append(sink, LogCall(IF mode = "preview" THEN "Preview FFmpeg command:"
                                  ELSE "FFmpeg command:", << >>))
  /\ pc' = "run"
  /\ UNCHANGED << mode, src, overlay, assets, ki, extra_inputs,
                  filters, global_input_offset, filter_complex, failure,
                  spawned, fs, compiled, any_enabled, step >>
  /\ UNCHANGED << rpc, child, pipe, emitted, kills, rc, result, buildVars, twiceVars >>

\* run_subprocess(cmd, log_fn) is entered; its steps are those of SpecRun
CallRunSubprocess ==
  /\ pc = "run"
  /\ rpc = "idle"
  /\ rpc' = "begin"
  /\ UNCHANGED << child, pipe, emitted, sink, kills, rc, result, genVars,
                  buildVars, twiceVars >>

NoBuild == [key |-> "", level |-> 0, overlay |-> NONE, assets |-> << >>,
            exists |-> FALSE, c1 |-> 1, c2 |-> 1]

RunIdle ==
  /\ rpc = "idle"
  /\ child = "none"
  /\ pipe = << >>
  /\ emitted = << >>
  /\ sink = << >>
  /\ kills = 0
  /\ rc = [hi |-> 0, lo |-> 0]
  /\ result = [kind |-> "none", raw |-> [hi |-> 0, lo |-> 0],
               norm |-> [hi |-> 0, lo |-> 0]]

BuildIdle ==
  /\ b_in = NoBuild
  /\ b_out = Fragment(<< >>, << >>)

\* no explicit dict, no seeded source and no call on record
TwiceIdle ==
  /\ chosen_effects = << >>
  /\ overlay_exists = FALSE
  /\ random_stream = << >>
  /\ drawn = 0
  /\ returned = << >>

GenStart ==
  /\ pc = "assemble"
  /\ src = UNREAD
  /\ duration = 0
  /\ assets = << >>
  /\ ki = 1
  /\ extra_inputs = << >>
  /\ filters = << >>
  /\ global_input_offset = 1
  /\ filter_complex = << >>
  /\ cmd = << >>
  /\ failure = NoFailure
  /\ spawned = << >>
  /\ fs = << >>
  /\ compiled = << >>
  /\ any_enabled = FALSE
  /\ step = NoStep

\* a call of generate_preview or generate with its cfg
Init ==
  /\ mode \in {"preview", "generate"}
  /\ overlay \in Overlays
  /\ GenStart
  /\ RunIdle
  /\ BuildIdle
  /\ TwiceIdle

\* a call of _assemble_filter_complex alone
InitAssemble ==
  /\ mode = "none"
  /\ overlay \in Overlays
  /\ GenStart
  /\ RunIdle
  /\ BuildIdle
  /\ TwiceIdle

NextAssemble ==
  \/ LoopSkipDisabled
  \/ LoopSkipGate
  \/ LoopCompile
  \/ LoopEnd

SpecAssemble == InitAssemble /\ [][NextAssemble]_vars

(***************************************************************************)
(* ffmpeg_worker.py: _assemble_filter_complex called again on one mapping  *)
(*                                                                         *)
(* chosen_effects is held as the dict holds it, its entries in the order   *)
(* the caller inserted them, and each pass looks its key up. The random    *)
(* module is a seeded source: the k-th call after the seed returns the     *)
(* k-th element of random_stream, whether the call is random.random() or   *)
(* random.choice(); an element is the result as a fraction of the unit     *)
(* interval, in milli. An element is fixed when a call first consumes it,  *)
(* and a later call, started from the same seed, reads it again.           *)
(***************************************************************************)
\* the keys of the caller's dict
ChosenKeys == {"sounds", "speed", "rainbow", "meme_injection", "memes"}

\* the values of the caller's dict; an absent "probability" or "level" is
\* the empty sequence
Cfgs ==
  { [enabled |-> FALSE, probability |-> << >>, level |-> << >>],
    [enabled |-> TRUE, probability |-> << >>, level |-> << >>],
    [enabled |-> TRUE, probability |-> << 500 >>, level |-> << >>],
    [enabled |-> TRUE, probability |-> << >>, level |-> << 2500 >>] }

\* the dicts a caller passes: up to MaxChosen entries, no key twice
ChosenDicts ==
  { d \in UNION { [1..n -> [key : ChosenKeys, cfg : Cfgs]] : n \in 0..MaxChosen } :
      \A i, j \in 1..Len(d) : i # j => d[i].key # d[j].key }

\* the same entries inserted in another order
Reorderings(d) ==
  { e \in [1..Len(d) -> Range(d)] : Range(e) = Range(d) }

\* {}, which has no "enabled"
EmptyCfg == [enabled |-> FALSE, probability |-> << >>, level |-> << >>]

\* chosen_effects.get(key, {})
DictGet(d, key) ==
  IF \E i \in 1..Len(d) : d[i].key = key
  THEN d[CHOOSE i \in 1..Len(d) : d[i].key = key].cfg
  ELSE EmptyCfg

\* float(cfg.get("probability", 1.0))
CfgProbability(cfg) ==
  IF cfg.probability = << >> THEN 1000 ELSE cfg.probability[1]

\* float(cfg.get("level", EFFECTS_METADATA[key].get("default_level", 1.0)))
CfgLevel(cfg, key) ==
  IF cfg.level = << >> THEN default_level[key] ELSE cfg.level[1]

\* the keys the loop visits when it follows the caller's dict
LoopKeysOfChosen(chosen) == [i \in 1..Len(chosen) |-> chosen[i].key]

\* for key in EFFECTS_METADATA.keys()
LoopKeys(chosen) == EFFECTS_KEYS

\* the key of the pass under way and cfg = chosen_effects.get(key, {})
PassKey == LoopKeys(chosen_effects)[ki]
PassCfg == DictGet(chosen_effects, PassKey)

\* the results the source can give to its calls number from + 1 to from + k:
\* the ones on record, and any result for a call not made before
DrawsAt(from, k) ==
  { s \in [1..k -> RandomDraws] :
      \A i \in 1..k :
        from + i <= Len(random_stream) => s[i] = random_stream[from + i] }

\* the record of the source once the calls from + 1 .. from + Len(s) are made
Record(from, s) ==
  IF from + Len(s) <= Len(random_stream) THEN random_stream
  ELSE SubSeq(random_stream, 1, from) \o s

\* random.choice(seq) on the result u of the source: the element at
\* int(u * len(seq)), counted from 1
ChoiceIndex(u, n) == (u * n) \div 1000 + 1

\* the random.choice calls of a builder: _choose_asset draws only from a
\* pool that holds a file
ChoiceCalls(a, ps) ==
  Len(SelectSeq(ps, LAMBDA q : AssetsGet(a, q) # << >>))

\* the index random.choice returns on the i-th pool the builder reads, after
\* g calls of random.random() in the same pass; 1 when no choice is made
ChoiceOf(a, ps, i, s, g) ==
  IF i > Len(ps) \/ AssetsGet(a, ps[i]) = << >> THEN 1
  ELSE ChoiceIndex(s[g + ChoiceCalls(a, SubSeq(ps, 1, i))],
                   Len(AssetsGet(a, ps[i])))

\* the key is absent from chosen_effects or not enabled: continue
ChosenSkipDisabled ==
  /\ pc = "assemble"
  /\ ki <= Len(LoopKeys(chosen_effects))
  /\ ~PassCfg.enabled
  /\ ki' = ki + 1
  /\ step' = [kind |-> "disabled", enabled |-> FALSE, p |-> 0,
               draws |-> 0, builds |-> 0]
  /\ UNCHANGED << pc, mode, src, overlay, duration, assets, extra_inputs,
                  filters, global_input_offset, filter_complex, cmd, failure,
                  spawned, fs, compiled, any_enabled >>
  /\ UNCHANGED << runVars, buildVars, twiceVars >>

\* the key is enabled, p < 1.0 and random.random() > p: continue
ChosenSkipGate ==
  /\ pc = "assemble"
  /\ ki <= Len(LoopKeys(chosen_effects))
  /\ PassCfg.enabled
  /\ LET p == CfgProbability(PassCfg) IN
     /\ p < 1000
     /\ \E s \in DrawsAt(drawn, 1) :
          /\ s[1] > p
          /\ random_stream' = Record(drawn, s)
     /\ step' = [kind |-> "gated", enabled |-> TRUE, p |-> p,
                  draws |-> GateCalls(p), builds |-> 0]
  /\ drawn' = drawn + 1
  /\ ki' = ki + 1
  /\ any_enabled' = TRUE
  /\ UNCHANGED << pc, mode, src, overlay, duration, assets, extra_inputs,
                  filters, global_input_offset, filter_complex, cmd, failure,
                  spawned, fs, compiled >>
  /\ UNCHANGED << chosen_effects, overlay_exists, returned >>
  /\ UNCHANGED << runVars, buildVars >>

\* the key is enabled and passes the gate: build, allocate, rewrite
ChosenCompile ==
  /\ pc = "assemble"
  /\ ki <= Len(LoopKeys(chosen_effects))
  /\ PassCfg.enabled
  /\ LET key == PassKey
         p == CfgProbability(PassCfg)
         level == CfgLevel(PassCfg, key)
         g == GateCalls(p)
         \* os.path.exists is asked by rainbow only, for a truthy overlay
         exists == key = "rainbow" /\ Truthy(overlay) /\ overlay_exists
         ps == PoolsOf(key, overlay, exists)
     IN  \E a \in Reveal(assets, ps) :
         \E s \in DrawsAt(drawn, g + ChoiceCalls(a, ps)) :
           \* `p < 1.0 and random.random() > p` is false
           /\ ~(p < 1000 /\ s[1] > p)
           /\ LET c1 == ChoiceOf(a, ps, 1, s, g)
                  c2 == ChoiceOf(a, ps, 2, s, g)
                  frag == build_effect_command_for(key, level, src, overlay, a,
                            [exists |-> exists, c1 |-> c1, c2 |-> c2])
                  st == [extra_inputs |-> extra_inputs, filters |-> filters,
                         global_input_offset |-> global_input_offset]
                  nx == Allocate(st, key, frag)
              IN  /\ assets' = a
                  /\ extra_inputs' = nx.extra_inputs
                  /\ global_input_offset' = nx.global_input_offset
                  /\ filters' = nx.filters
                  /\ compiled' = Append(compiled,
                       [key |-> key, start |-> nx.start, at |-> Len(filters),
                        inputs |-> frag.inputs, templates |-> frag.filters,
                        level |-> level,
                        env |-> [exists |-> exists, c1 |-> c1, c2 |-> c2]])
                  /\ random_stream' = Record(drawn, s)
                  /\ drawn' = drawn + Len(s)
                  /\ step' = [kind |-> "compiled", enabled |-> TRUE, p |-> p,
                               draws |-> g, builds |-> 1]
  /\ ki' = ki + 1
  /\ any_enabled' = TRUE
  /\ UNCHANGED << pc, mode, src, overlay, duration, filter_complex, cmd,
                  failure, spawned, fs >>
  /\ UNCHANGED << chosen_effects, overlay_exists, returned >>
  /\ UNCHANGED << runVars, buildVars >>

\* lines 88-91: the fallback, the join and the return; the call is put on
\* record with what it was given and what it consumed of the source
ChosenEnd ==
  /\ pc = "assemble"
  /\ ki = Len(LoopKeys(chosen_effects)) + 1
  /\ filters' = FinalFilters(filters)
  /\ filter_complex' = Join(FinalFilters(filters))
  /\ pc' = "assembled"
  /\ step' = NoStep
  /\ returned' = Append(returned,
       [chosen_effects |-> chosen_effects,
        draws |-> SubSeq(random_stream, 1, drawn),
        keys |-> [f \in 1..Len(compiled) |-> compiled[f].key],
        extra_inputs |-> extra_inputs,
        filter_complex |-> Join(FinalFilters(filters))])
  /\ UNCHANGED << mode, src, overlay, duration, assets, ki, extra_inputs,
                  global_input_offset, cmd, failure, spawned, fs, compiled,
                  any_enabled >>
  /\ UNCHANGED << chosen_effects, overlay_exists, random_stream, drawn >>
  /\ UNCHANGED << runVars, buildVars >>

\* the caller seeds the source again and calls once more, with the same
\* src_path, overlay_path and assets and a dict holding the same entries
CallAgain ==
  /\ pc = "assembled"
  /\ Len(returned) < MaxCalls
  /\ chosen_effects' \in Reorderings(chosen_effects)
  /\ drawn' = 0
  /\ pc' = "assemble"
  /\ ki' = 1
  /\ extra_inputs' = << >>
  /\ filters' = << >>
  /\ global_input_offset' = 1
  /\ filter_complex' = << >>
  /\ compiled' = << >>
  /\ any_enabled' = FALSE
  /\ step' = NoStep
  /\ UNCHANGED << mode, src, overlay, duration, assets, cmd, failure,
                  spawned, fs >>
  /\ UNCHANGED << overlay_exists, random_stream, returned >>
  /\ UNCHANGED << runVars, buildVars >>

\* a call of _assemble_filter_complex with its arguments and its file system
InitTwice ==
  /\ mode = "none"
  /\ overlay \in Overlays
  /\ GenStart
  /\ RunIdle
  /\ BuildIdle
  /\ chosen_effects \in ChosenDicts
  /\ overlay_exists \in (IF Truthy(overlay) THEN BOOLEAN ELSE {FALSE})
  /\ random_stream = << >>
  /\ drawn = 0
  /\ returned = << >>

NextTwice ==
  \/ ChosenSkipDisabled
  \/ ChosenSkipGate
  \/ ChosenCompile
  \/ ChosenEnd
  \/ CallAgain

SpecTwice == InitTwice /\ [][NextTwice]_vars

(***************************************************************************)
(* effects.py: one call of build_effect_command_for                        *)
(***************************************************************************)
\* every assets dict over the seven pools within the bound
AllAssets ==
  { a \in { [p \in PoolSet |-> PoolOfSize(p, sz[p])] :
              sz \in [PoolSet -> 0..MaxAssets] } :
      SumLen(a, PoolSet) <= MaxAssets }

\* the levels a caller passes to a builder that reads its level
BuildLevels ==
  {-1000, 0, 100, 125, 300, 500, 1000, 1500, 2000, 2127, 2129, 2500, 3000,
   4000, 5000, 8200, 16150, 30000, 50000}

BuildLevelChoices(key) ==
  IF UsesLevel(key) THEN BuildLevels \cup {default_level[key]}
  ELSE {default_level[key]}

\* the keys a caller passes: the catalog's and one the catalog does not know
BuildKeys == Range(EFFECTS_KEYS) \cup {"unknown_key"}

GenIdle ==
  /\ pc = "idle"
  /\ mode = "none"
  /\ src = UNREAD
  /\ overlay = NONE
  /\ duration = 0
  /\ assets = << >>
  /\ ki = 1
  /\ extra_inputs = << >>
  /\ filters = << >>
  /\ global_input_offset = 1
  /\ filter_complex = << >>
  /\ cmd = << >>
  /\ failure = NoFailure
  /\ spawned = << >>
  /\ fs = << >>
  /\ compiled = << >>
  /\ any_enabled = FALSE
  /\ step = NoStep

InitBuild ==
  /\ \E key \in BuildKeys, ov \in Overlays, a \in AllAssets :
     \E level \in (IF key \in DOMAIN default_level
                   THEN BuildLevelChoices(key) ELSE {1000}) :
       b_in = [key |-> key, level |-> level, overlay |-> ov, assets |-> a,
               exists |-> FALSE, c1 |-> 1, c2 |-> 1]
  /\ b_out = Fragment(<< >>, << >>)
  /\ GenIdle
  /\ RunIdle
  /\ TwiceIdle

Built == b_out.filters # << >>

\* the call: the environment answers os.path.exists and random.choice
Build ==
  /\ ~Built
  /\ \E exists \in BOOLEAN :
       /\ ~(b_in.key = "rainbow" /\ Truthy(b_in.overlay)) => ~exists
       /\ LET ps == PoolsOf(b_in.key, b_in.overlay, exists) IN
          \E c1 \in ChoiceRange(b_in.assets, ps, 1),
             c2 \in ChoiceRange(b_in.assets, ps, 2) :
            /\ b_in' = [b_in EXCEPT !.exists = exists, !.c1 = c1, !.c2 = c2]
            /\ b_out' = build_effect_command_for(b_in.key, b_in.level, "clip.mp4",
                          b_in.overlay, b_in.assets,
                          [exists |-> exists, c1 |-> c1, c2 |-> c2])
  /\ UNCHANGED << genVars, runVars, twiceVars >>

NextBuild == Build

SpecBuild == InitBuild /\ [][NextBuild]_vars

(***************************************************************************)
(* utils.py: _normalize_return_code and run_subprocess                     *)
(*                                                                         *)
(* An exit status r is held in two limbs, r = hi * 65536 + lo with         *)
(* 0 <= lo < 65536 and hi signed, so that the unsigned 32-bit statuses of  *)
(* Windows (up to 2^32 - 1) are exact.                                     *)
(***************************************************************************)
Limbs(hi, lo) == [hi |-> hi, lo |-> lo]

\* the integer a status stands for, where it fits the signed 32-bit range
ToInt(r) == r.hi * 65536 + r.lo

\* rc >= 2**31
AtLeast2p31(r) == r.hi >= 32768

\* rc - 2**32
Minus2p32(r) == Limbs(r.hi - 65536, r.lo)

\* _normalize_return_code subtracting 2**31 instead of 2**32
NormalizeBy2p31(r) ==
  IF AtLeast2p31(r) THEN Limbs(r.hi - 32768, r.lo) ELSE r

\* _normalize_return_code(rc) for the int process.wait() returns
_normalize_return_code(r) ==
  IF AtLeast2p31(r) THEN Minus2p32(r) ELSE r

\* rc != 0
IsNonzero(r) == r.hi # 0 \/ r.lo # 0

\* the statuses process.wait() returns: 0..255 and -signal on POSIX, an
\* unsigned 32-bit value on Windows
RawCodes ==
  { Limbs(0, 0), Limbs(0, 1), Limbs(0, 255), Limbs(32767, 65535),
    Limbs(32768, 0), Limbs(49152, 5), Limbs(65535, 65534),
    Limbs(65535, 65535), Limbs(-1, 65527), Limbs(-1, 65521) }

\* the characters of an output line
Chars == {"a", " "}
Whitespace == {" ", "\n"}

RECURSIVE SeqsUpTo(_, _)
SeqsUpTo(S, n) ==
  IF n = 0 THEN { << >> }
  ELSE LET shorter == SeqsUpTo(S, n - 1)
       IN  shorter \cup { Append(q, x) : q \in shorter, x \in S }

\* what readline returns for one line of the child: its text and the newline
Lines == { Append(body, "\n") : body \in SeqsUpTo(Chars, MaxLineLen) }

\* line.rstrip()
RECURSIVE rstrip(_)
rstrip(line) ==
  IF line # << >> /\ line[Len(line)] \in Whitespace
  THEN rstrip(SubSeq(line, 1, Len(line) - 1))
  ELSE line

\* Forward that drops the lines that are blank once stripped
ForwardNonBlank(sk, line) ==
  IF rstrip(line) # << >> THEN Append(sk, LogCall("", rstrip(line))) ELSE sk

\* if line: log_fn(line.rstrip())
Forward(sk, line) ==
  IF line # << >> THEN Append(sk, LogCall("", rstrip(line))) ELSE sk

NoResult == [kind |-> "none", raw |-> Limbs(0, 0), norm |-> Limbs(0, 0)]

\* log_fn("Running:", " ".join(cmd))
RunBegin ==
  /\ rpc = "begin"
  /\ sink' = Append(sink, LogCall("Running:", << >>))
  /\ rpc' = "spawn"
  /\ UNCHANGED << child, pipe, emitted, kills, rc, result, genVars, buildVars, twiceVars >>

\* subprocess.Popen(...) returns a process
SpawnOk ==
  /\ rpc = "spawn"
  /\ child' = "running"
  /\ spawned' = Append(spawned, cmd)
  /\ rpc' = "read"
  /\ UNCHANGED << pipe, emitted, sink, kills, rc, result, buildVars, twiceVars >>
  /\ UNCHANGED << pc, mode, src, overlay, duration, assets, ki, extra_inputs,
                  filters, global_input_offset, filter_complex, cmd, failure,
                  fs, compiled, any_enabled, step >>

\* subprocess.Popen(...) raises FileNotFoundError or another OSError
SpawnFail ==
  /\ rpc = "spawn"
  /\ \E k \in {"executable-not-found", "process-start-failed"} :
       result' = [NoResult EXCEPT !.kind = k]
  /\ rpc' = "raised"
  /\ UNCHANGED << child, pipe, emitted, sink, kills, rc, genVars, buildVars, twiceVars >>

\* the child writes one line to its output
ChildEmit ==
  /\ child = "running"
  /\ Len(emitted) < MaxLines
  /\ \E line \in Lines :
       /\ pipe' = Append(pipe, line)
       /\ emitted' = Append(emitted, line)
  /\ UNCHANGED << rpc, child, sink, kills, rc, result, genVars, buildVars, twiceVars >>

\* the child closes its output and goes on running
ChildClose ==
  /\ child = "running"
  /\ child' = "closed"
  /\ UNCHANGED << rpc, pipe, emitted, sink, kills, rc, result, genVars, buildVars, twiceVars >>

\* the child terminates by itself; its status is read by process.wait()
ChildExit ==
  /\ child \in {"running", "closed"}
  /\ child' = "exited"
  /\ UNCHANGED << rpc, pipe, emitted, sink, kills, rc, result, genVars,
                  buildVars, twiceVars >>

\* one turn of the loop: readline returns a line, forwarded to log_fn
ReadLine ==
  /\ rpc = "read"
  /\ pipe # << >>
  /\ sink' = Forward(sink, Head(pipe))
  /\ pipe' = Tail(pipe)
  /\ UNCHANGED << rpc, child, emitted, kills, rc, result, genVars, buildVars, twiceVars >>

\* readline returns "": the loop ends
ReadEof ==
  /\ rpc = "read"
  /\ pipe = << >>
  /\ child \in {"closed", "exited"}
  /\ rpc' = "close"
  /\ UNCHANGED << child, pipe, emitted, sink, kills, rc, result, genVars, buildVars, twiceVars >>

\* readline or log_fn raises an Exception inside the loop
ReadFail ==
  /\ rpc = "read"
  /\ \/ UNCHANGED pipe
     \/ pipe # << >> /\ pipe' = Tail(pipe)
  /\ rpc' = "except"
  /\ UNCHANGED << child, emitted, sink, kills, rc, result, genVars, buildVars, twiceVars >>

\* the except clause without process.kill()
KillNothing(c) == c

\* the child after process.kill(): a live child is signalled, a terminated
\* one is left alone
KillEffect(c) == IF c \in {"running", "closed"} THEN "killed" ELSE c

\* the except clause: process.kill(), then raise
KillAndRaise ==
  /\ rpc = "except"
  /\ child' = KillEffect(child)
  /\ kills' = IF child' # child THEN kills + 1 ELSE kills
  /\ result' = [NoResult EXCEPT !.kind = "stream-interrupted"]
  /\ rpc' = "raised"
  /\ UNCHANGED << pipe, emitted, sink, rc, genVars, buildVars, twiceVars >>

\* process.stdout.close()
CloseStdout ==
  /\ rpc = "close"
  /\ rpc' = "wait"
  /\ UNCHANGED << child, pipe, emitted, sink, kills, rc, result, genVars, buildVars, twiceVars >>

\* ExitResult failing on a positive normalized status only
ExitResultPositiveOnly(r) ==
  LET rc_signed == _normalize_return_code(r)
  IN  IF rc_signed.hi > 0 \/ (rc_signed.hi = 0 /\ rc_signed.lo > 0)
      THEN [kind |-> "process-exited-nonzero", raw |-> r, norm |-> rc_signed]
      ELSE [kind |-> "ok", raw |-> r, norm |-> rc_signed]

\* lines 68-71: how run_subprocess ends for the status rc
ExitResult(r) ==
  LET rc_signed == _normalize_return_code(r)
  IN  IF IsNonzero(r)
      THEN [kind |-> "process-exited-nonzero", raw |-> r, norm |-> rc_signed]
      ELSE [kind |-> "ok", raw |-> r, norm |-> rc_signed]

\* rc = process.wait() returns the status of the terminated child
WaitExit ==
  /\ rpc = "wait"
  /\ child = "exited"
  /\ \E r \in RawCodes :
       /\ rc' = r
       /\ result' = ExitResult(r)
       /\ rpc' = IF ExitResult(r).kind = "ok" THEN "returned" ELSE "raised"
  /\ UNCHANGED << child, pipe, emitted, sink, kills, genVars, buildVars, twiceVars >>

\* a call of run_subprocess(cmd, log_fn)
InitRun ==
  /\ rpc = "begin"
  /\ child = "none"
  /\ pipe = << >>
  /\ emitted = << >>
  /\ sink = << >>
  /\ kills = 0
  /\ rc = Limbs(0, 0)
  /\ result = NoResult
  /\ pc = "idle"
  /\ mode = "none"
  /\ src = UNREAD
  /\ overlay = NONE
  /\ duration = 0
  /\ assets = << >>
  /\ ki = 1
  /\ extra_inputs = << >>
  /\ filters = << >>
  /\ global_input_offset = 1
  /\ filter_complex = << >>
  /\ cmd \in { Args(<< FFMPEG, "-version" >>), Args(<< "ffplay", "-version" >>) }
  /\ failure = NoFailure
  /\ spawned = << >>
  /\ fs = << >>
  /\ compiled = << >>
  /\ any_enabled = FALSE
  /\ step = NoStep
  /\ BuildIdle
  /\ TwiceIdle

NextRun ==
  \/ RunBegin
  \/ SpawnOk
  \/ SpawnFail
  \/ ChildEmit
  \/ ChildClose
  \/ ChildExit
  \/ ReadLine
  \/ ReadEof
  \/ ReadFail
  \/ KillAndRaise
  \/ CloseStdout
  \/ WaitExit

SpecRun == InitRun /\ [][NextRun]_vars

(***************************************************************************)
(* ffmpeg_worker.py: generate_preview and generate, whole                  *)
(***************************************************************************)
\* run_subprocess has returned or raised: the handler returns out_path, or
\* the exception leaves the handler
ReturnFromRun ==
  /\ pc = "run"
  /\ rpc \in {"returned", "raised"}
  /\ pc' = IF rpc = "returned" THEN "done" ELSE "failed"
  /\ failure' = IF rpc = "returned" THEN failure
                ELSE [kind |-> result.kind, missing |-> << >>]
  /\ UNCHANGED << mode, src, overlay, duration, assets, ki, extra_inputs,
                  filters, global_input_offset, filter_complex, cmd, spawned,
                  fs, compiled, any_enabled, step >>
  /\ UNCHANGED << runVars, buildVars, twiceVars >>

Next ==
  \/ LoopSkipDisabled
  \/ LoopSkipGate
  \/ LoopCompile
  \/ LoopEnd
  \/ Verify
  \/ BuildCommand
  \/ CallRunSubprocess
  \/ NextRun
  \/ ReturnFromRun

Spec == Init /\ [][Next]_vars

(***************************************************************************)
(* Properties                                                              *)
(***************************************************************************)
RECURSIVE SumInputs(_, _)
SumInputs(cs, n) ==
  IF n = 0 THEN 0 ELSE Len(cs[n].inputs) + SumInputs(cs, n - 1)

\* C1: the extra inputs get the slots 1, 2, ... in compilation order: each
\* compiled fragment starts at 1 plus the number of inputs appended before
\* it, its j-th input is the path at slot start + j - 1 of extra_inputs and
\* the slot its placeholder {j.} is rewritten to, and the counter is
\* 1 + len(extra_inputs).
SlotsContiguous ==
  /\ global_input_offset = 1 + Len(extra_inputs)
  /\ SumInputs(compiled, Len(compiled)) = Len(extra_inputs)
  /\ \A f \in 1..Len(compiled) :
       LET c == compiled[f] IN
       /\ c.start = 1 + SumInputs(compiled, f - 1)
       /\ \A g \in 1..Len(compiled) :
            f < g => c.start + Len(c.inputs) <= compiled[g].start
       /\ \A j \in 1..Len(c.inputs) :
            /\ c.start + j - 1 \in 1..Len(extra_inputs)
            /\ extra_inputs[c.start + j - 1] = c.inputs[j]
       /\ \A i \in 1..Len(c.templates) :
            \A t \in 1..Len(c.templates[i]) :
              LET tok == c.templates[i][t] IN
              (tok.t = "ph" /\ tok.n >= 1 /\ tok.n <= Len(c.inputs))
                => filters[c.at + i][t] = REF(c.start + tok.n - 1, tok.s)

\* C1 witness: a fragment with two inputs compiled after one with inputs
SlotsContiguousWitness ==
  /\ pc = "assembled"
  /\ Len(compiled) = 2
  /\ compiled[1].inputs # << >>
  /\ Len(compiled[2].inputs) = 2
  /\ compiled[2].start = 1 + Len(compiled[1].inputs)
  /\ global_input_offset = 3 + Len(compiled[1].inputs)

\* the arguments that follow each occurrence of flag, from index i on
RECURSIVE AfterFlag(_, _, _)
AfterFlag(c, flag, i) ==
  IF i >= Len(c) THEN << >>
  ELSE IF c[i].k = "str" /\ c[i].s = flag
       THEN << c[i + 1] >> \o AfterFlag(c, flag, i + 2)
       ELSE AfterFlag(c, flag, i + 1)

FlagIndices(c, flag) ==
  { i \in 1..Len(c) : c[i].k = "str" /\ c[i].s = flag }

IsStr(a, x) == a.k = "str" /\ a.s = x

\* C2: in both modes the argument vector lists the primary input as the
\* first input, then the extra inputs in order, then the graph description,
\* then the selection of [vout] and [aout], then the encoding parameters,
\* then the destination; the input at slot i >= 1 of the graph is the i-th
\* extra input argument.
CmdOrder ==
  cmd # << >> =>
    LET ins == AfterFlag(cmd, "-i", 1)
        I == FlagIndices(cmd, "-i")
        G == FlagIndices(cmd, "-filter_complex")
        n == Len(extra_inputs)
    IN  /\ Len(ins) = n + 1
        /\ IsStr(ins[1], src)
        /\ \A i \in 1..n : IsStr(ins[i + 1], extra_inputs[i])
        /\ Cardinality(G) = 1
        /\ \A g \in G :
             /\ \A i \in I : i + 1 < g
             /\ g + 6 < Len(cmd)
             /\ cmd[g + 1].k = "graph"
             /\ cmd[g + 1].g = filter_complex
             /\ IsStr(cmd[g + 2], "-map") /\ IsStr(cmd[g + 3], "[vout]")
             /\ IsStr(cmd[g + 4], "-map") /\ IsStr(cmd[g + 5], "[aout]")
             /\ IsStr(cmd[g + 6], "-c:v")
             /\ \A i \in (g + 6)..Len(cmd) :
                  cmd[i].k = "str" /\ cmd[i].s \notin {"-i", "-filter_complex", "-map"}
             /\ \A t \in 1..Len(cmd[g + 1].g) :
                  cmd[g + 1].g[t].t = "ref" => cmd[g + 1].g[t].n + 1 <= Len(ins)
        /\ IsStr(cmd[Len(cmd)], OutPath(mode))
        /\ \A f \in 1..Len(compiled) :
             \A j \in 1..Len(compiled[f].inputs) :
               IsStr(ins[compiled[f].start + j], compiled[f].inputs[j])

\* C2 witness: a preview command with two different extra inputs
CmdOrderWitness ==
  /\ pc = "run"
  /\ mode = "preview"
  /\ Len(extra_inputs) = 2
  /\ extra_inputs[1] # extra_inputs[2]
  /\ Len(cmd) = 8 + 4 + 6 + 10

\* a path _verify_files_exist found not to be a regular file
NotRegular(p) == ~Truthy(p) \/ (p \in DOMAIN fs /\ ~fs[p])

\* C3: when the primary input or an extra input is not a regular file the
\* invocation fails with missing-input, the failure lists every such path
\* with its tag (source or extra) and nothing else, and no child is spawned.
MissingInputFailsBeforeSpawn ==
  /\ failure.kind = "missing-input" => spawned = << >> /\ cmd = << >>
  /\ src # UNREAD =>
       LET badSrc == NotRegular(src)
           badX == { i \in 1..Len(extra_inputs) : NotRegular(extra_inputs[i]) }
           listed == failure.missing
       IN  IF badSrc \/ badX # {}
           THEN /\ pc = "failed"
                /\ failure.kind = "missing-input"
                /\ Len(listed) = (IF badSrc THEN 1 ELSE 0) + Cardinality(badX)
                /\ badSrc => listed[1] = [kind |-> "source", path |-> src]
                /\ \A i \in badX :
                     \E m \in 1..Len(listed) :
                       listed[m] = [kind |-> "extra", path |-> extra_inputs[i]]
                /\ \A m \in 1..Len(listed) :
                     \/ listed[m].kind = "source" /\ listed[m].path = src /\ badSrc
                     \/ /\ listed[m].kind = "extra"
                        /\ \E i \in badX : extra_inputs[i] = listed[m].path
           ELSE failure.kind # "missing-input"

\* C3 witness: the primary input and an extra input are both missing, a
\* second extra input is a regular file
MissingInputWitness ==
  /\ pc = "failed"
  /\ failure.kind = "missing-input"
  /\ Len(extra_inputs) = 2
  /\ Len(failure.missing) = 2
  /\ failure.missing[1].kind = "source"
  /\ failure.missing[2].kind = "extra"
  /\ spawned = << >>

\* run_subprocess has ended after process.wait()
EndedAfterWait ==
  rpc \in {"returned", "raised"}
  /\ result.kind \in {"ok", "process-exited-nonzero"}

\* C4: after the child terminates run_subprocess succeeds if the status is
\* zero raw or normalized, and otherwise fails with process-exited-nonzero
\* carrying the raw and the normalized status.
ExitStatusDecides ==
  /\ (rpc = "returned") => (result.kind = "ok" /\ child = "exited")
  /\ EndedAfterWait =>
       /\ child = "exited"
       /\ result.raw = rc
       /\ IF rc = Limbs(0, 0) \/ result.norm = Limbs(0, 0)
          THEN rpc = "returned" /\ result.kind = "ok"
          ELSE /\ rpc = "raised"
               /\ result.kind = "process-exited-nonzero"
               /\ result.norm.lo = rc.lo
               /\ result.norm.hi = (IF rc.hi >= 32768 THEN rc.hi - 65536 ELSE rc.hi)

\* C4 witness: a negative status (a signal) fails the call
ExitStatusWitness ==
  /\ rpc = "raised"
  /\ result.kind = "process-exited-nonzero"
  /\ rc = Limbs(-1, 65527)
  /\ result.norm = Limbs(-1, 65527)

\* C5: normalization maps a raw status r >= 2^31 to r - 2^32 and leaves
\* 0 <= r < 2^31 unchanged; raw 4294967294 gives -2 and the call fails with
\* process-exited-nonzero carrying 4294967294 and -2.
NormalizeWraps ==
  EndedAfterWait =>
    /\ (result.raw.hi >= 32768) =>
         ToInt(result.norm)
           = ((result.raw.hi - 32768) * 65536 + result.raw.lo) - 2147483647 - 1
    /\ (result.raw.hi >= 0 /\ result.raw.hi < 32768) => result.norm = result.raw
    /\ result.raw = Limbs(65535, 65534) =>
         /\ ToInt(result.norm) = -2
         /\ rpc = "raised"
         /\ result.kind = "process-exited-nonzero"

\* C5 witness: the child exited with raw status 4294967294
NormalizeWitness ==
  /\ rpc = "raised"
  /\ rc = Limbs(65535, 65534)
  /\ result.raw = Limbs(65535, 65534)
  /\ ToInt(result.norm) = -2

\* the calls of log_fn made for the child's lines
ChildCalls(sk) == SelectSeq(sk, LAMBDA e : e.tag = "")

\* line is text followed by whitespace only
IsStripOf(text, line) ==
  /\ Len(text) <= Len(line)
  /\ SubSeq(line, 1, Len(text)) = text
  /\ \A i \in (Len(text) + 1)..Len(line) : line[i] \in Whitespace
  /\ text # << >> => text[Len(text)] \notin Whitespace

\* C6: every line the child emitted is forwarded once, in emission order,
\* before run_subprocess waits for the exit status; with status 0 the call
\* returns.
LinesForwardedInOrder ==
  /\ rpc \in {"close", "wait"} \/ EndedAfterWait =>
       /\ pipe = << >>
       /\ Len(ChildCalls(sink)) = Len(emitted)
       /\ \A i \in 1..Len(emitted) :
            IsStripOf(ChildCalls(sink)[i].line, emitted[i])
  /\ rpc \in {"read", "except"} \/ result.kind = "stream-interrupted" =>
       /\ Len(ChildCalls(sink)) <= Len(emitted)
       /\ \A i \in 1..Len(ChildCalls(sink)) :
            IsStripOf(ChildCalls(sink)[i].line, emitted[i])
  /\ (EndedAfterWait /\ rc = Limbs(0, 0)) => rpc = "returned"

\* C6 witness: two lines, the first blank, were forwarded and the call
\* returned
LinesForwardedWitness ==
  /\ rpc = "returned"
  /\ Len(emitted) = 2
  /\ emitted[1] = << "\n" >>
  /\ emitted[2] # emitted[1]
  /\ Len(ChildCalls(sink)) = 2

NoEffectGlobalNoop ==
  (pc = "assembled" /\ ~any_enabled) =>
    /\ extra_inputs = << >>
    /\ filter_complex
         = << REF(0, "v"), LIT("copy"), LAB("vout"), LIT("; "),
              REF(0, "a"), LIT("anull"), LAB("aout") >>

\* C8 witness: the loop ended without meeting an enabled key
NoEffectWitness ==
  /\ pc = "assembled"
  /\ ki = NumKeys + 1
  /\ ~any_enabled
  /\ compiled = << >>
  /\ Len(filter_complex) = 7

\* the keys whose builder reads an asset pool
AssetKeys ==
  { "sounds", "rainbow", "explosion_spam", "meme_injection", "meme_sounds",
    "memes", "adverts", "errors", "images", "overlay_videos" }

\* the pools the call read are all empty and no override path was given
NoAssetNoOverride ==
  /\ ~Truthy(b_in.overlay)
  /\ \A p \in Range(PoolsOf(b_in.key, b_in.overlay, b_in.exists)) :
       AssetsGet(b_in.assets, p) = << >>

\* C9: an asset-consuming effect whose pools are empty, with no override,
\* returns exactly the no-op fragment: no inputs, '{0v}copy[vout]' and
\* '{0a}anull[aout]'.
EmptyPoolsExactNoop ==
  (Built /\ b_in.key \in AssetKeys /\ NoAssetNoOverride) => b_out = NoopFragment

\* an input of the fragment that was drawn from the meme_sounds pool
IsSoundInput(path) == path \in Range(AssetsGet(b_in.assets, "meme_sounds"))

HasPlaceholder(frag, j, k) ==
  \E i \in 1..Len(frag.filters) :
    \E t \in 1..Len(frag.filters[i]) :
      frag.filters[i][t] = PH(j, k)

\* C10: a fragment of meme_injection or memes references each of its inputs
\* by the placeholder of its 1-based position: the sound as {ja}, the image
\* as {jv}.
CompoundInputsReferenced ==
  (Built /\ b_in.key \in {"meme_injection", "memes"}) =>
    \A j \in 1..Len(b_out.inputs) :
      HasPlaceholder(b_out, j, IF IsSoundInput(b_out.inputs[j]) THEN "a" ELSE "v")

\* the number of declarations of the label l in a sequence of tokens
CountLabel(toks, l) == Cardinality({ i \in 1..Len(toks) : toks[i] = LAB(l) })

\* every effect compiled in this call returned the no-op fragment
AllCompiledNoop ==
  \A f \in 1..Len(compiled) :
    compiled[f].inputs = << >> /\ compiled[f].templates = NoopFragment.filters

\* C11: when no effect is enabled or every compiled effect returned its
\* no-op fragment, the graph description is the single global no-op
\* fragment, with [vout] and [aout] declared once each.
AllNoopGivesGlobalNoop ==
  (pc = "assembled" /\ AllCompiledNoop) =>
    /\ filter_complex = Join(GlobalNoop)
    /\ CountLabel(filter_complex, "vout") = 1
    /\ CountLabel(filter_complex, "aout") = 1

\* the atempo sub-factors of a speed fragment, in micro units
TemposOf(frag) == SelectSeq(frag.filters[2], LAMBDA tok : tok.t = "num")

\* the product of the sub-factors, each taken in milli units
RECURSIVE ProdMilli(_)
ProdMilli(ts) ==
  IF ts = << >> THEN 1 ELSE (Head(ts).n \div 1000) * ProdMilli(Tail(ts))

RECURSIVE Pow1000(_)
Pow1000(n) == IF n = 0 THEN 1 ELSE 1000 * Pow1000(n - 1)

Abs(x) == IF x >= 0 THEN x ELSE -x

\* C12: the speed effect clamps its level into [0.125, 4.0]; every atempo
\* sub-factor it emits lies in [0.5, 2.0] and their product equals the
\* clamped factor within 0.001.
SpeedDecomposition ==
  (Built /\ b_in.key = "speed") =>
    LET f == Clamp(125, 4000, b_in.level)
        ts == TemposOf(b_out)
        n == Len(ts)
    IN  /\ f >= 125 /\ f <= 4000
        /\ (b_in.level >= 125 /\ b_in.level <= 4000) => f = b_in.level
        /\ b_out.filters[1][3] = NUM(f, "recip-milli")
        /\ n >= 1
        /\ \A i \in 1..n :
             /\ ts[i].s = "micro"
             /\ ts[i].n >= 500000 /\ ts[i].n <= 2000000
             /\ ts[i].n % 1000 = 0
        /\ Abs(ProdMilli(ts) - f * Pow1000(n - 1)) <= Pow1000(n - 1)

\* C12 witness: a level below the range gives 0.125 as three factors of 0.5
SpeedDecompositionWitness ==
  /\ Built
  /\ b_in.key = "speed"
  /\ b_in.level = 100
  /\ Len(TemposOf(b_out)) = 3
  /\ \A i \in 1..3 : TemposOf(b_out)[i].n = 500000

\* the keys whose builder reads the intensity
IntensityKeys ==
  {"speed", "chorus", "vibrato", "stutter", "earrape", "dance_squid"}

\* C13: the intensity that reaches the filter parameters is clamped to
\* [effect-specific minimum, max_level of the key]: the fragment built for a
\* level is the one built for that level clamped, for some minimum that is
\* at most max_level.
IntensityClamped ==
  (Built /\ b_in.key \in IntensityKeys) =>
    /\ b_out.filters # << >>
    /\ \E lo \in { l \in BuildLevels : l <= max_level[b_in.key] } :
         b_out = build_effect_command_for(b_in.key,
                   Clamp(lo, max_level[b_in.key], b_in.level), "clip.mp4",
                   b_in.overlay, b_in.assets,
                   [exists |-> b_in.exists, c1 |-> b_in.c1, c2 |-> b_in.c2])

\* the slots the rewritten filters of the f-th compiled effect refer to
FragRefs(f) ==
  UNION { { filters[compiled[f].at + i][t].n :
              t \in { u \in 1..Len(filters[compiled[f].at + i]) :
                        filters[compiled[f].at + i][u].t = "ref" } } :
          i \in 1..Len(compiled[f].templates) }

\* the rewritten filters of the f-th compiled effect read stream k of slot 0
ReadsPrimary(f, k) ==
  \E i \in 1..Len(compiled[f].templates) :
    \E t \in 1..Len(filters[compiled[f].at + i]) :
      filters[compiled[f].at + i][t] = REF(0, k)

\* the effects that overlay one asset on the primary video
OverlayStyleKeys ==
  {"rainbow", "explosion_spam", "adverts", "errors", "images", "overlay_videos"}

\* C14: two overlay-style effects compiled in one call, each with one extra
\* input, give two extra inputs; the first fragment refers to the slots 0
\* and 1, the second to 0 and 2, both read [0:v] and [0:a], and the graph
\* declares [vout] and [aout] twice; k compiled effects give k declarations
\* of each terminal label.
TwoOverlaysIndependent ==
  pc = "assembled" =>
    /\ compiled # << >> =>
         /\ CountLabel(filter_complex, "vout") = Len(compiled)
         /\ CountLabel(filter_complex, "aout") = Len(compiled)
    /\ \A f \in 1..Len(compiled) : ReadsPrimary(f, "v") /\ ReadsPrimary(f, "a")
    /\ ( /\ Len(compiled) = 2
         /\ \A f \in 1..2 : /\ compiled[f].key \in OverlayStyleKeys
                            /\ Len(compiled[f].inputs) = 1 )
       => /\ Len(extra_inputs) = 2
          /\ extra_inputs = compiled[1].inputs \o compiled[2].inputs
          /\ FragRefs(1) = {0, 1}
          /\ FragRefs(2) = {0, 2}
          /\ CountLabel(filter_complex, "vout") = 2
          /\ CountLabel(filter_complex, "aout") = 2

\* C14 witness: adverts and errors compiled, each with a file of its pool
TwoOverlaysWitness ==
  /\ pc = "assembled"
  /\ Len(compiled) = 2
  /\ compiled[1].key = "adverts" /\ compiled[1].inputs = << PoolFile("adverts", 1) >>
  /\ compiled[2].key = "errors" /\ compiled[2].inputs = << PoolFile("errors", 1) >>
  /\ CountLabel(filter_complex, "vout") = 2

\* the pool a sound-mixing effect takes its audio asset from
SoundPoolOf(key) == IF key = "meme_sounds" THEN "meme_sounds" ELSE "sounds"

\* a template of frag mixes the primary audio with the audio of input 1
MixesFirstInput(frag) ==
  \E i \in 1..Len(frag.filters) :
    LET tpl == frag.filters[i] IN
    /\ \E t \in 1..Len(tpl) : tpl[t] = PH(0, "a")
    /\ \E t \in 1..Len(tpl) : tpl[t] = PH(1, "a")
    /\ \E t \in 1..Len(tpl) : tpl[t] = LAB("aout")

\* C15: random_sound, sounds and meme_sounds, given a non-empty audio pool,
\* return one extra input taken from the pool and an audio template that
\* mixes {0a} with {1a} into [aout].
SoundMixOneInput ==
  ( /\ Built
    /\ b_in.key \in {"random_sound", "sounds", "meme_sounds"}
    /\ AssetsGet(b_in.assets, SoundPoolOf(b_in.key)) # << >> )
  => /\ Len(b_out.inputs) = 1
     /\ b_out.inputs[1] \in Range(AssetsGet(b_in.assets, SoundPoolOf(b_in.key)))
     /\ MixesFirstInput(b_out)

\* the pool an overlay-based effect takes its visual asset from
OverlayPoolOf(key) ==
  CASE key = "adverts" -> "adverts"
    [] key = "errors" -> "errors"
    [] key = "meme_injection" -> "memes"
    [] OTHER -> "images"

\* C16: adverts, errors, meme_injection, images, rainbow and explosion_spam
\* return one extra visual input, the chosen asset or the override path,
\* overlaid as {1v}, whenever the pool is non-empty or an override path is
\* given, and the no-op fragment only when there is neither.
OverlayOneInput ==
  ( /\ Built
    /\ b_in.key \in {"adverts", "errors", "meme_injection", "images", "rainbow",
                      "explosion_spam"} )
  => LET pool == AssetsGet(b_in.assets, OverlayPoolOf(b_in.key)) IN
     IF pool # << >> \/ Truthy(b_in.overlay)
     THEN /\ Len(b_out.inputs) = 1
          /\ b_out.inputs[1] \in Range(pool) \cup {b_in.overlay}
          /\ HasPlaceholder(b_out, 1, "v")
     ELSE b_out = NoopFragment

\* the position of a key in the catalog
KeyIndex(k) == CHOOSE i \in 1..NumKeys : EFFECTS_KEYS[i] = k

RECURSIVE SumTemplates(_, _)
SumTemplates(cs, n) ==
  IF n = 0 THEN 0 ELSE Len(cs[n].templates) + SumTemplates(cs, n - 1)

\* the keys of a dict whose entry is enabled
EnabledKeys(d) == { d[i].key : i \in { j \in 1..Len(d) : d[j].cfg.enabled } }

\* a sequence of catalog keys in strictly increasing catalog position
InCatalogOrder(ks) ==
  \A f, g \in 1..Len(ks) : f < g => KeyIndex(ks[f]) < KeyIndex(ks[g])

\* two dicts holding the same entries, in whatever order
SameMapping(d, e) == Range(d) = Range(e)

\* two calls that read the same results of the source, as far as both read
SameDraws(s, t) ==
  \A k \in 1..Min(Len(s), Len(t)) : s[k] = t[k]

\* C17: the rewritten fragments and the extra inputs appear in the catalog
\* order of the compiled keys, whatever the order of the keys in the
\* caller's dict; two compilations given the same mapping, the same other
\* arguments and the same results of the random source return the same
\* extra-input list and the same graph description.
CatalogOrderDeterministic ==
  /\ InCatalogOrder([f \in 1..Len(compiled) |-> compiled[f].key])
  /\ \A f \in 1..Len(compiled) :
       LET c == compiled[f] IN
       /\ c.key \in EnabledKeys(chosen_effects)
       /\ c.at = SumTemplates(compiled, f - 1)
       /\ SubSeq(filters, c.at + 1, c.at + Len(c.templates))
            = RewriteAll(c.templates, c.start, Len(c.inputs))
       /\ c.start = 1 + SumInputs(compiled, f - 1)
       /\ SubSeq(extra_inputs, c.start, c.start + Len(c.inputs) - 1) = c.inputs
  /\ pc = "assembled" => filter_complex = Join(filters)
  /\ \A i \in 1..Len(returned) : InCatalogOrder(returned[i].keys)
  /\ \A i, j \in 1..Len(returned) :
       ( /\ SameMapping(returned[i].chosen_effects, returned[j].chosen_effects)
         /\ SameDraws(returned[i].draws, returned[j].draws) )
       => /\ returned[i].extra_inputs = returned[j].extra_inputs
          /\ returned[i].filter_complex = returned[j].filter_complex
          /\ returned[i].keys = returned[j].keys
          /\ returned[i].draws = returned[j].draws

\* C17 witness: the caller lists memes before sounds, then sounds before
\* memes; both calls compile sounds, then memes, drawing from the source,
\* and return the two files in that order
CatalogOrderWitness ==
  /\ Len(returned) = 2
  /\ Len(returned[1].chosen_effects) = 2
  /\ returned[1].chosen_effects[1].key = "memes"
  /\ returned[1].chosen_effects[2].key = "sounds"
  /\ returned[2].chosen_effects[1].key = "sounds"
  /\ returned[2].keys = << "sounds", "memes" >>
  /\ returned[2].extra_inputs = << PoolFile("sounds", 1), PoolFile("memes", 1) >>
  /\ Len(returned[2].draws) >= 2

\* C18: a pass of the loop that skips its key, disabled or gated out,
\* leaves the counter, the extra inputs, the fragments and the pools alone
\* and calls no builder; a disabled key makes no gate draw, an enabled key
\* with p < 1.0 makes one, an enabled key with p = 1.0 makes none and is
\* compiled.
SkipLeavesState ==
  [][ (pc = "assemble" /\ step'.kind # "none") =>
        /\ ki' = ki + 1
        /\ step'.kind \in {"disabled", "gated"} =>
             /\ UNCHANGED << global_input_offset, extra_inputs, filters,
                             compiled, assets >>
             /\ step'.builds = 0
        /\ ~step'.enabled => (step'.kind = "disabled" /\ step'.draws = 0)
        /\ (step'.enabled /\ step'.p < 1000) => step'.draws = 1
        /\ (step'.enabled /\ step'.p >= 1000) =>
             (step'.draws = 0 /\ step'.kind = "compiled")
        /\ step'.kind = "compiled" =>
             (step'.builds = 1 /\ Len(compiled') = Len(compiled) + 1)
    ]_vars

\* C18 witness: a key gated out after an effect with an input was compiled
SkipLeavesStateWitness ==
  /\ pc = "assemble"
  /\ step.kind = "gated"
  /\ step.draws = 1
  /\ compiled # << >>
  /\ extra_inputs # << >>

\* the tokens of kind k in a sequence of tokens
TokensOf(toks, k) == { toks[t] : t \in { u \in 1..Len(toks) : toks[u].t = k } }

\* C19: the graph description holds no placeholder {jv} or {ja}; every
\* reference [k:v] or [k:a] in it has 0 <= k <= len(extra_inputs), and one
\* with k >= 1 stands in the fragment of the effect that appended the k-th
\* extra input.
NoUnresolvedPlaceholder ==
  /\ \A i \in 1..Len(filters) :
       /\ TokensOf(filters[i], "ph") = {}
       /\ \A tok \in TokensOf(filters[i], "ref") :
            /\ tok.n >= 0 /\ tok.n <= Len(extra_inputs)
            /\ tok.n >= 1 =>
                 \E f \in 1..Len(compiled) :
                   /\ compiled[f].at < i
                   /\ i <= compiled[f].at + Len(compiled[f].templates)
                   /\ compiled[f].start <= tok.n
                   /\ tok.n < compiled[f].start + Len(compiled[f].inputs)
  /\ pc = "assembled" =>
       /\ filter_complex = Join(filters)
       /\ TokensOf(filter_complex, "ph") = {}
       /\ \A tok \in TokensOf(filter_complex, "ref") :
            tok.n >= 0 /\ tok.n <= Len(extra_inputs)

\* C19 witness: two sound effects, the second one's {1a} rewritten to [2:a]
NoUnresolvedWitness ==
  /\ pc = "assembled"
  /\ Len(extra_inputs) = 2
  /\ REF(1, "a") \in TokensOf(filter_complex, "ref")
  /\ REF(2, "a") \in TokensOf(filter_complex, "ref")
  /\ compiled[2].key = "meme_sounds"

====
